---- MODULE Spec2Model ----
(***************************************************************************)
(* CollabBoard: the relay (server.mjs) and the part of the client that     *)
(* consumes its presence events.                                           *)
(*                                                                         *)
(* The relay keeps a module-level table  rooms : boardId -> {canvasJSON,   *)
(* users : Map<socketId, UserInfo>}  and, per connection, the closure      *)
(* variable myBoardId.  Socket.io keeps, per socket, the set of transport  *)
(* rooms the socket joined; io.to(b) / socket.to(b) address that set.      *)
(* Each relay handler runs to completion, so one action is one handler.    *)
(***************************************************************************)
EXTENDS Integers, Sequences, FiniteSets, TLC

\* ---------------------------------------------------------------- bounds
MaxConn == 2

\* ------------------------------------------------------------ value sets
Null == "null"

Conns == 1..MaxConn

\* Board identifiers are opaque strings chosen by the client; the empty
\* string is one of them.
BoardIds == {"", "A"}

\* canvasJSON payloads of canvas-sync
Snapshots == {"s1", "s2"}

NAMES == <<"Alex", "Blake">>

COLORS == <<"#F59E0B", "#10B981">>

UserIds == <<"u1", "u2">>

UserInfo(i) == [userId |-> UserIds[i], userName |-> NAMES[i], color |-> COLORS[i]]

\* what a payload field that is missing reads as (JavaScript undefined)
Undefined == "undefined"

\* the keys the rooms Map and the transport rooms can take: the board
\* identifiers and the boardId of a payload that has none
RoomKeys == BoardIds \cup {Undefined}

\* pointer positions <<x, y>> of cursor-move
Coords == {<<0, 2>>, <<1, 2>>}

VARIABLES
    tab,              \* per connection, the browser tab (client session) behind it
    status,           \* per connection: "new", "open" (connected) or "closed"
    rooms,            \* the relay's rooms table: a function on the boards that have a room
    myBoardId,        \* per connection, the closure variable myBoardId
    socketRooms,      \* per connection, the transport rooms the socket has joined
    lastUsersUpdate,  \* per connection, the payload of the last users-update received
    synced,           \* per board, payload of the last canvas-sync since its room was created
    vacated,          \* per board: its only member disconnected and nobody joined since
    last,             \* the inbound event the relay processed last
    out,              \* the events the relay emitted while processing it, in order
    fabricRef,        \* the client's canvas: fabricRef.current and its exported objects
    isRemoteUpdateRef,\* the client's flag isRemoteUpdateRef.current
    syncTimerRef,     \* syncTimerRef.current: a timeout id, or NoTimer for null
    timers,           \* the timeouts of the client that were set and neither ran nor were cleared
    loads,            \* the loadFromJSON calls of applyRemoteCanvas that have not resolved
    emitted,          \* what the client's last step sent to the relay
    burst,            \* the local mutations since the last emission, and the state after the last
    lastCanvas,       \* the client's last step and what it did
    env,              \* the client build's import.meta.env: VITE_SOCKET_URL and DEV
    manager,          \* where the client's socket.io connection stands
    attempts,         \* the reconnection attempts made since the last successful open
    connectionStatus, \* the store's connectionStatus
    boardReady,       \* App's boardReady state
    readyTimer,       \* whether App's 6 s fallback timeout is pending
    pendingCanvasJSON,\* App's pendingCanvasJSON.current
    appLoads,         \* the loadFromJSON calls of App's room-state handler that have not resolved
    joinSent,         \* the join-room messages the client's last step emitted
    lastClient,       \* the lifecycle handler that ran last
    sendBuffer,       \* the socket's sendBuffer: events emitted while it was not connected
    wire,             \* what the socket wrote to the transport in the client's last lifecycle step
    sites,            \* the members' canvases and the canvas-sync messages in flight
    history,          \* the store's history: canvas snapshots, oldest first
    historyIndex,     \* the store's historyIndex, counted from 0; -1 for none
    lastStore,        \* the store operation that ran last, its argument and what it returned
    snapLoads         \* the loadFromJSON calls of canvasUndo / canvasRedo that have not resolved

relayVars == <<tab, status, rooms, myBoardId, socketRooms, lastUsersUpdate,
               synced, vacated, last, out>>

canvasVars == <<fabricRef, isRemoteUpdateRef, syncTimerRef, timers, loads, emitted,
                burst, lastCanvas>>

clientVars == <<env, manager, attempts, connectionStatus, boardReady, readyTimer,
                pendingCanvasJSON, appLoads, joinSent, lastClient>>

socketVars == <<sendBuffer, wire>>

storeVars == <<history, historyIndex, lastStore, snapLoads>>

vars == <<tab, status, rooms, myBoardId, socketRooms, lastUsersUpdate,
          synced, vacated, last, out,
          fabricRef, isRemoteUpdateRef, syncTimerRef, timers, loads, emitted,
          burst, lastCanvas,
          env, manager, attempts, connectionStatus, boardReady, readyTimer,
          pendingCanvasJSON, appLoads, joinSent, lastClient,
          sendBuffer, wire, sites, history, historyIndex, lastStore, snapLoads>>

\* The identity the client behind connection c created with getMyUser() and
\* keeps in sessionStorage: connections of one tab carry the same identity.
MyUser(c) == UserInfo(tab[c])

\* ------------------------------------------------------------ JS helpers
\* JavaScript truthiness of a string-or-null value
Truthy(v) == v # Null /\ v # "" /\ v # Undefined

\* a set that puts a new key in front
MapSet_Prepend(m, sid, u) ==
    IF \E i \in DOMAIN m : m[i].sid = sid
    THEN [i \in DOMAIN m |-> IF m[i].sid = sid THEN [sid |-> sid, user |-> u] ELSE m[i]]
    ELSE <<[sid |-> sid, user |-> u]>> \o m

\* a set that deletes the key first, so an existing key moves to the end
MapSet_MoveToEnd(m, sid, u) ==
    Append(SelectSeq(m, LAMBDA e : e.sid # sid), [sid |-> sid, user |-> u])

\* Map.prototype.set on an insertion-ordered map kept as a sequence of
\* [sid, user] entries: an existing key keeps its position.
MapSet(m, sid, u) ==
    IF \E i \in DOMAIN m : m[i].sid = sid
    THEN [i \in DOMAIN m |-> IF m[i].sid = sid THEN [sid |-> sid, user |-> u] ELSE m[i]]
    ELSE Append(m, [sid |-> sid, user |-> u])

MapDelete(m, sid) == SelectSeq(m, LAMBDA e : e.sid # sid)

MapHas(m, sid) == \E i \in DOMAIN m : m[i].sid = sid

MapKeys(m) == {m[i].sid : i \in DOMAIN m}

\* [...map.values()]
MapValues(m) == [i \in DOMAIN m |-> m[i].user]

\* the connections of a set, in ascending order
RECURSIVE SetToSeq(_)
SetToSeq(S) ==
    IF S = {} THEN <<>>
    ELSE LET c == CHOOSE x \in S : \A y \in S : x <= y
         IN <<c>> \o SetToSeq(S \ {c})

\* ------------------------------------------------------- outbound events
Event(to, ev, room, canvasJSON, users, userId, x, y) ==
    [to |-> to, ev |-> ev, room |-> room, canvasJSON |-> canvasJSON,
     users |-> users, userId |-> userId, x |-> x, y |-> y]

RoomStateEv(to, b, cj, us) == Event(to, "room-state", b, cj, us, Null, 0, 0)

UsersUpdateEv(to, b, us) == Event(to, "users-update", b, Null, us, Null, 0, 0)

UserLeftEv(to, b, uid) == Event(to, "user-left", b, Null, <<>>, uid, 0, 0)

CanvasSyncEv(to, b, cj) == Event(to, "canvas-sync", b, cj, <<>>, Null, 0, 0)

CursorMoveEv(to, b, uid, x, y) == Event(to, "cursor-move", b, Null, <<>>, uid, x, y)

\* the sockets io.to(b) addresses, given the transport rooms sr
Audience(sr, b) == {c \in Conns : b \in sr[c]}

\* ------------------------------------------------------- relay functions
\* The rooms table is kept as a total function on RoomKeys; a board that is
\* not a key of the Map holds NoRoom.
NoRoom == [exists |-> FALSE, canvasJSON |-> Null, users |-> <<>>]

NewRoom == [exists |-> TRUE, canvasJSON |-> Null, users |-> <<>>]

\* rooms.has(b)
Has(rs, b) == rs[b].exists

\* the table after getRoom(b); the room it returns is getRoom(rs, b)[b]
getRoom(rs, b) ==
    IF ~Has(rs, b) THEN [rs EXCEPT ![b] = NewRoom] ELSE rs

\* what broadcastUsers(b) emits
broadcastUsers(rs, sr, b) ==
    IF ~Has(rs, b) THEN <<>>
    ELSE LET userList == MapValues(rs[b].users)
             aud == SetToSeq(Audience(sr, b))
         IN [i \in DOMAIN aud |-> UsersUpdateEv(aud[i], b, userList)]

cleanEmptyRoom(rs, b) ==
    IF Has(rs, b) /\ Len(rs[b].users) = 0
    THEN [rs EXCEPT ![b] = NoRoom]
    ELSE rs

\* io.to(b) in place of socket.to(b): the sender is not excepted
SocketTo_IncludeSender(sr, c, b) == Audience(sr, b)

\* socket.to(b): everyone in transport room b except the sender
SocketTo(sr, c, b) == Audience(sr, b) \ {c}

\* the peer list without the filter on socket.id
otherUsers_WithSelf(m, c) == MapValues(m)

\* [...room.users.entries()].filter(([sid]) => sid !== socket.id).map(([, u]) => u)
otherUsers(m, c) == MapValues(SelectSeq(m, LAMBDA e : e.sid # c))

\* --- join-room: the relay state and the emissions after the handler ran
OnJoinRoom(c, b, u) ==
    LET prev == myBoardId[c]
        switching == Truthy(prev) /\ prev # b
        sr1 == IF switching THEN [socketRooms EXCEPT ![c] = @ \ {prev}] ELSE socketRooms
        hasPrev == switching /\ Has(rooms, prev)
        rs1 == IF hasPrev THEN [rooms EXCEPT ![prev].users = MapDelete(@, c)] ELSE rooms
        out1 == IF hasPrev THEN broadcastUsers(rs1, sr1, prev) ELSE <<>>
        rs2 == IF hasPrev THEN cleanEmptyRoom(rs1, prev) ELSE rs1
        sr2 == [sr1 EXCEPT ![c] = @ \cup {b}]
        rs3 == getRoom(rs2, b)
        rs4 == [rs3 EXCEPT ![b].users = MapSet(@, c, u)]
        out2 == <<RoomStateEv(c, b, rs4[b].canvasJSON, otherUsers(rs4[b].users, c))>>
        out3 == broadcastUsers(rs4, sr2, b)
    IN [rooms |-> rs4, socketRooms |-> sr2,
        myBoardId |-> [myBoardId EXCEPT ![c] = b],
        out |-> out1 \o out2 \o out3]

\* --- join-room of the serverless relay (api/socket): as OnJoinRoom, but
\* the room that was left is not looked at again
ApiOnJoinRoom(c, b, u) ==
    LET prev == myBoardId[c]
        switching == Truthy(prev) /\ prev # b
        sr1 == IF switching THEN [socketRooms EXCEPT ![c] = @ \ {prev}] ELSE socketRooms
        hasPrev == switching /\ Has(rooms, prev)
        rs1 == IF hasPrev THEN [rooms EXCEPT ![prev].users = MapDelete(@, c)] ELSE rooms
        out1 == IF hasPrev THEN broadcastUsers(rs1, sr1, prev) ELSE <<>>
        sr2 == [sr1 EXCEPT ![c] = @ \cup {b}]
        rs3 == getRoom(rs1, b)
        rs4 == [rs3 EXCEPT ![b].users = MapSet(@, c, u)]
        out2 == <<RoomStateEv(c, b, rs4[b].canvasJSON, otherUsers(rs4[b].users, c))>>
        out3 == broadcastUsers(rs4, sr2, b)
    IN [rooms |-> rs4, socketRooms |-> sr2,
        myBoardId |-> [myBoardId EXCEPT ![c] = b],
        out |-> out1 \o out2 \o out3]

\* canvas-sync that keeps a snapshot the room already holds (first writer wins)
OnCanvasSync_KeepFirst(c, b, cj) ==
    LET rs1 == getRoom(rooms, b)
        rs2 == IF rs1[b].canvasJSON = Null THEN [rs1 EXCEPT ![b].canvasJSON = cj] ELSE rs1
        to == SetToSeq(SocketTo(socketRooms, c, b))
    IN [rooms |-> rs2, socketRooms |-> socketRooms, myBoardId |-> myBoardId,
        out |-> [i \in DOMAIN to |-> CanvasSyncEv(to[i], b, cj)]]

\* canvas-sync that does not forward a snapshot equal to the stored one
OnCanvasSync_Coalesce(c, b, cj) ==
    LET rs1 == getRoom(rooms, b)
        rs2 == [rs1 EXCEPT ![b].canvasJSON = cj]
        to == IF rs1[b].canvasJSON = cj THEN <<>> ELSE SetToSeq(SocketTo(socketRooms, c, b))
    IN [rooms |-> rs2, socketRooms |-> socketRooms, myBoardId |-> myBoardId,
        out |-> [i \in DOMAIN to |-> CanvasSyncEv(to[i], b, cj)]]

\* --- canvas-sync
OnCanvasSync(c, b, cj) ==
    LET rs1 == getRoom(rooms, b)
        rs2 == [rs1 EXCEPT ![b].canvasJSON = cj]
        to == SetToSeq(SocketTo(socketRooms, c, b))
    IN [rooms |-> rs2, socketRooms |-> socketRooms, myBoardId |-> myBoardId,
        out |-> [i \in DOMAIN to |-> CanvasSyncEv(to[i], b, cj)]]

\* cursor-move that looks the room up with getRoom, as canvas-sync does
OnCursorMove_GetRoom(c, b, uid, x, y) ==
    LET to == SetToSeq(SocketTo(socketRooms, c, b))
    IN [rooms |-> getRoom(rooms, b), socketRooms |-> socketRooms, myBoardId |-> myBoardId,
        out |-> [i \in DOMAIN to |-> CursorMoveEv(to[i], b, uid, x, y)]]

\* --- cursor-move
OnCursorMove(c, b, uid, x, y) ==
    LET to == SetToSeq(SocketTo(socketRooms, c, b))
    IN [rooms |-> rooms, socketRooms |-> socketRooms, myBoardId |-> myBoardId,
        out |-> [i \in DOMAIN to |-> CursorMoveEv(to[i], b, uid, x, y)]]

\* --- disconnect.  Socket.io has taken the socket out of every transport
\* room before the handler runs.
OnDisconnect(c) ==
    LET mine == myBoardId[c]
        sr1 == [socketRooms EXCEPT ![c] = {}]
        unchanged == [rooms |-> rooms, socketRooms |-> sr1, myBoardId |-> myBoardId,
                      out |-> <<>>]
    IN IF ~Truthy(mine) THEN unchanged
       ELSE IF ~Has(rooms, mine) THEN unchanged
       ELSE LET hasUser == MapHas(rooms[mine].users, c)
                user == IF hasUser
                        THEN (CHOOSE e \in {rooms[mine].users[i] : i \in DOMAIN rooms[mine].users} :
                                 e.sid = c).user
                        ELSE MyUser(c)
                rs1 == [rooms EXCEPT ![mine].users = MapDelete(@, c)]
                aud == SetToSeq(Audience(sr1, mine))
                out1 == IF hasUser
                        THEN [i \in DOMAIN aud |-> UserLeftEv(aud[i], mine, user.userId)]
                             \o broadcastUsers(rs1, sr1, mine)
                        ELSE <<>>
            IN [rooms |-> cleanEmptyRoom(rs1, mine), socketRooms |-> sr1,
                myBoardId |-> [myBoardId EXCEPT ![c] = Null],
                out |-> out1]

\* ----------------------------------------------------- client handlers
\* A peer of the store's activeUsers.  Its cursor field, which only the
\* rendering of remote pointers reads, is not tracked.
ToPeer(u) == [id |-> u.userId, name |-> u.userName, color |-> u.color]

\* the peers the users-update handler of the client behind connection c
\* hands to setActiveUsers
usersUpdatePeers(users, c) ==
    LET others == SelectSeq(users, LAMBDA u : u.userId # MyUser(c).userId)
    IN [i \in DOMAIN others |-> ToPeer(others[i])]

\* the peers the room-state handler hands to setActiveUsers
roomStatePeers(users) == [i \in DOMAIN users |-> ToPeer(users[i])]

\* the last users-update each connection holds after evs were delivered in order
RECURSIVE DeliverUsersUpdate(_, _)
DeliverUsersUpdate(lu, evs) ==
    IF evs = <<>> THEN lu
    ELSE LET e == Head(evs)
         IN DeliverUsersUpdate(
                IF e.ev = "users-update" THEN [lu EXCEPT ![e.to] = e.users] ELSE lu,
                Tail(evs))

\* ------------------------------------------------------ client canvas
\* the exported objects of a canvas, as opaque tokens: the blank canvas,
\* what a local edit leaves, and what a remote snapshot holds
Blank == "blank"

LocalContents == {"L1", "L2"}

\* a Fabric canvas; set is FALSE while fabricRef.current is null
NoCanvas == [set |-> FALSE, objects |-> Blank]

\* new fabric.Canvas(...)
NewCanvas == [set |-> TRUE, objects |-> Blank]

\* JSON.stringify(fc.toJSON()): the exported objects
toJSON(fc) == fc.objects

\* fc.loadFromJSON(JSON.parse(canvasJSON)): the objects are replaced
loadFromJSON(fc, canvasJSON) == [fc EXCEPT !.objects = canvasJSON]

\* socket.emit('canvas-sync', { boardId, canvasJSON })
CanvasSyncMsg(canvasJSON) == [ev |-> "canvas-sync", canvasJSON |-> canvasJSON]

NoTimer == 0

\* ids setTimeout can return
TimerIds == {1, 2}

\* emitCanvasSync that does not clear the pending timeout
emitCanvasSync_NoClear(flag, fc, ref, ts) ==
    IF flag \/ ~fc.set
    THEN [timers |-> ts, syncTimerRef |-> ref, scheduled |-> FALSE, cleared |-> FALSE]
    ELSE LET t == CHOOSE x \in TimerIds : x \notin ts
         IN [timers |-> ts \cup {t}, syncTimerRef |-> t, scheduled |-> TRUE,
             cleared |-> FALSE]

\* emitCanvasSync: the timeouts and syncTimerRef.current after the call
emitCanvasSync(flag, fc, ref, ts) ==
    IF flag \/ ~fc.set
    THEN [timers |-> ts, syncTimerRef |-> ref, scheduled |-> FALSE, cleared |-> FALSE]
    ELSE LET ts1 == IF ref # NoTimer THEN ts \ {ref} ELSE ts
             t == CHOOSE x \in TimerIds : x \notin ts1
         IN [timers |-> ts1 \cup {t}, syncTimerRef |-> t, scheduled |-> TRUE,
             cleared |-> ref \in ts]

\* saveAfterAction, the observer of object:added / modified / removed;
\* pushed tells whether saveHistory pushed a history entry
saveAfterAction(flag, fc, ref, ts) ==
    IF flag
    THEN [timers |-> ts, syncTimerRef |-> ref, scheduled |-> FALSE, cleared |-> FALSE,
          pushed |-> FALSE]
    ELSE LET r == emitCanvasSync(flag, fc, ref, ts)
         IN [timers |-> r.timers, syncTimerRef |-> r.syncTimerRef,
             scheduled |-> r.scheduled, cleared |-> r.cleared, pushed |-> fc.set]

NoBurst == [n |-> "none", state |-> Blank]

\* the canvas right after the component mounted
InitCanvas ==
    /\ fabricRef = NewCanvas
    /\ isRemoteUpdateRef = FALSE
    /\ syncTimerRef = NoTimer
    /\ timers = {}
    /\ loads = <<>>
    /\ emitted = <<>>
    /\ burst = NoBurst
    /\ lastCanvas = [op |-> "mount", pushed |-> FALSE, scheduled |-> FALSE,
                     cleared |-> FALSE, burst |-> NoBurst, flag |-> FALSE]

\* ------------------------------------------------- client connection
\* import.meta.env of a build: VITE_SOCKET_URL (Undefined when not set)
\* and DEV
Envs == [url : {Undefined, "", "https://relay"}, dev : BOOLEAN]

\* the development build without VITE_SOCKET_URL
DevEnv == [url |-> Undefined, dev |-> TRUE]

\* the production build without VITE_SOCKET_URL
ProdEnv == [url |-> Undefined, dev |-> FALSE]

\* collabAvailable that only looks at VITE_SOCKET_URL
collabAvailable_UrlOnly(e) == Truthy(e.url)

\* collabAvailable = !!import.meta.env.VITE_SOCKET_URL || isDev
collabAvailable(e) == Truthy(e.url) \/ e.dev

\* socketPath
socketPath(e) ==
    IF Truthy(e.url) THEN "/socket.io" ELSE IF e.dev THEN "/socket.io" ELSE "/api/socket"

\* the transports option
transports(e) == IF collabAvailable(e) THEN <<"websocket", "polling">> ELSE <<"polling">>

\* reconnectionAttempts that is Infinity for every build
reconnectionAttempts_Infinity(e) == [finite |-> FALSE, n |-> 0]

\* the reconnectionAttempts option; finite is FALSE for Infinity
reconnectionAttempts(e) ==
    IF collabAvailable(e) THEN [finite |-> FALSE, n |-> 0] ELSE [finite |-> TRUE, n |-> 5]

\* the manager gives up before another attempt: attempts >= reconnectionAttempts
Exhausted(e, a) == reconnectionAttempts(e).finite /\ a >= reconnectionAttempts(e).n

\* the boardId and identity App captured when its effect ran
JoinRoomMsg == [ev |-> "join-room", boardId |-> "A", user |-> UserInfo(1)]

\* --- the socket of socket.ts.  emit() on a socket that is not connected
\* keeps the packet in its sendBuffer; when the handshake completes the
\* socket writes the buffer out and raises 'connect'.  Which of the two
\* comes first depends on the socket.io-client release the build installs,
\* which the sources do not pin.  The model keeps the event names of the
\* first MaxBuf packets of the buffer, which are the first to be written.
MaxBuf == 1

\* socket.connected
Connected(m) == m \in {"joining", "connected"}

\* the sendBuffer after socket.emit(ev, ...)
SocketEmit(m, buf, ev) ==
    IF Connected(m) \/ Len(buf) >= MaxBuf THEN buf ELSE Append(buf, ev)

\* what the socket writes to the transport when the handshake completed
\* and the 'connect' listener emitted join-room: the buffer first, or the
\* listener's emit first
OnConnectWrites(buf, first) ==
    IF first THEN buf \o <<"join-room">> ELSE <<"join-room">> \o buf

\* the client right after App's effect ran socket.connect()
InitClient(e) ==
    /\ env = e
    /\ sendBuffer = <<>>
    /\ wire = <<>>
    /\ manager = "opening"
    /\ attempts = 0
    /\ connectionStatus = "connecting"
    /\ boardReady = FALSE
    /\ readyTimer = TRUE
    /\ pendingCanvasJSON = Null
    /\ appLoads = <<>>
    /\ joinSent = <<>>
    /\ lastClient = "mount"

\* --- the board store's history (boardStore.ts)
HistoryCap == 50

\* s.slice(-n)
LastN(s, n) == IF Len(s) <= n THEN s ELSE SubSeq(s, Len(s) - n + 1, Len(s))

\* pushHistory that appends without dropping the entries after the index
pushHistory_NoTrim(h, i, state) ==
    LET next == LastN(Append(h, state), HistoryCap)
    IN [history |-> next, historyIndex |-> Len(next) - 1, ret |-> Null]

\* pushHistory that leaves the index where the entry was appended
pushHistory_StaleIndex(h, i, state) ==
    LET trimmed == SubSeq(h, 1, i + 1)
        next == LastN(Append(trimmed, state), HistoryCap)
    IN [history |-> next, historyIndex |-> Len(trimmed), ret |-> Null]

\* pushHistory(state)
pushHistory(h, i, state) ==
    LET trimmed == SubSeq(h, 1, i + 1)
        next == LastN(Append(trimmed, state), HistoryCap)
    IN [history |-> next, historyIndex |-> Len(next) - 1, ret |-> Null]

\* undo(): the store after the call and what it returns
undo(h, i) ==
    IF i <= 0 THEN [history |-> h, historyIndex |-> i, ret |-> Null]
    ELSE [history |-> h, historyIndex |-> i - 1, ret |-> h[(i - 1) + 1]]

\* redo that returns the entry it moves away from
redo_Current(h, i) ==
    IF i >= Len(h) - 1 THEN [history |-> h, historyIndex |-> i, ret |-> Null]
    ELSE [history |-> h, historyIndex |-> i + 1, ret |-> h[i + 1]]

\* redo()
redo(h, i) ==
    IF i >= Len(h) - 1 THEN [history |-> h, historyIndex |-> i, ret |-> Null]
    ELSE [history |-> h, historyIndex |-> i + 1, ret |-> h[(i + 1) + 1]]

\* clearBoard()
clearBoard == [history |-> <<>>, historyIndex |-> -1, ret |-> Null]

\* what lastStore holds when no operation ran
NoStoreOp == [op |-> "none", arg |-> Null, ret |-> Null, cur |-> Null, idx |-> -1,
              dropped |-> FALSE, after |-> "none", trimmed |-> FALSE]

InitStore ==
    /\ history = <<>>
    /\ historyIndex = -1
    /\ lastStore = NoStoreOp
    /\ snapLoads = <<>>

\* --- the members of a board, each with its canvas: whether its debounce
\* timeout is pending, the canvas-sync messages it emitted that the relay
\* has not processed (outbox), those the relay forwarded to it that it has
\* not applied (inbox), the local edits it made, and whether an emission
\* overlapped another member's with no local edit since
MaxEdits == 2

InitPeers ==
    sites = [canvas |-> [c \in Conns |-> Blank],
             pending |-> [c \in Conns |-> FALSE],
             outbox |-> [c \in Conns |-> <<>>],
             inbox |-> [c \in Conns |-> <<>>],
             edits |-> [c \in Conns |-> 0],
             overlap |-> FALSE]

\* --------------------------------------------------------------- actions
\* the relay right after start-up, no client connected yet
InitRelay ==
    /\ status = [c \in Conns |-> "new"]
    /\ rooms = [b \in RoomKeys |-> NoRoom]
    /\ myBoardId = [c \in Conns |-> Null]
    /\ socketRooms = [c \in Conns |-> {}]
    /\ lastUsersUpdate = [c \in Conns |-> <<>>]
    /\ synced = [b \in RoomKeys |-> Null]
    /\ vacated = [b \in RoomKeys |-> FALSE]
    /\ last = [op |-> "init", conn |-> 0, board |-> Null, prev |-> Null,
               hadRoom |-> FALSE, wasVacated |-> FALSE, x |-> 0, y |-> 0]
    /\ out = <<>>

\* every connection comes from a tab of its own, as far as there are identities
Init ==
    /\ tab = [c \in Conns |-> ((c - 1) % Len(UserIds)) + 1]
    /\ InitRelay
    /\ InitCanvas
    /\ InitPeers
    /\ InitStore
    /\ InitClient(DevEnv)

\* install the result r of a handler and deliver what it emitted
Apply(r, op, c, b, seen, x, y) ==
    /\ rooms' = r.rooms
    /\ socketRooms' = r.socketRooms
    /\ myBoardId' = r.myBoardId
    /\ out' = r.out
    /\ lastUsersUpdate' = DeliverUsersUpdate(seen, r.out)
    /\ last' = [op |-> op, conn |-> c, board |-> b,
                prev |-> IF op = "join-room" THEN myBoardId[c] ELSE Null,
                hadRoom |-> IF op # "disconnect" THEN Has(rooms, b) ELSE FALSE,
                wasVacated |-> IF op = "join-room" THEN vacated[b] ELSE FALSE,
                x |-> x, y |-> y]

\* a room that was deleted forgets its snapshot
SyncedAfter(rs) ==
    [b \in RoomKeys |-> IF Has(rooms, b) /\ ~Has(rs, b) THEN Null ELSE synced[b]]

\* io.on('connection')
Connection(c) ==
    /\ status[c] = "new"
    /\ status' = [status EXCEPT ![c] = "open"]
    /\ last' = [op |-> "connection", conn |-> c, board |-> Null, prev |-> Null,
                hadRoom |-> FALSE, wasVacated |-> FALSE, x |-> 0, y |-> 0]
    /\ out' = <<>>
    /\ UNCHANGED <<tab, rooms, myBoardId, socketRooms, lastUsersUpdate, synced, vacated>>
    /\ UNCHANGED <<canvasVars, clientVars, socketVars, sites, storeVars>>

\* The client sends its own identity with every join-room.
JoinRoom(c, b) ==
    /\ status[c] = "open"
    /\ LET r == OnJoinRoom(c, b, MyUser(c))
       IN Apply(r, "join-room", c, b, lastUsersUpdate, 0, 0) /\ synced' = SyncedAfter(r.rooms)
    /\ vacated' = [vacated EXCEPT ![b] = FALSE]
    /\ UNCHANGED <<tab, status>>
    /\ UNCHANGED <<canvasVars, clientVars, socketVars, sites, storeVars>>

CanvasSync(c, b, cj) ==
    /\ status[c] = "open"
    /\ Apply(OnCanvasSync(c, b, cj), "canvas-sync", c, b, lastUsersUpdate, 0, 0)
    /\ synced' = [synced EXCEPT ![b] = cj]
    /\ UNCHANGED <<tab, status, vacated>>
    /\ UNCHANGED <<canvasVars, clientVars, socketVars, sites, storeVars>>

\* The client sends its own userId with every cursor-move.
CursorMove(c, b, x, y) ==
    /\ status[c] = "open"
    /\ Apply(OnCursorMove(c, b, MyUser(c).userId, x, y), "cursor-move", c, b, lastUsersUpdate,
             x, y)
    /\ UNCHANGED <<tab, status, synced, vacated>>
    /\ UNCHANGED <<canvasVars, clientVars, socketVars, sites, storeVars>>

Disconnect(c) ==
    /\ status[c] = "open"
    /\ status' = [status EXCEPT ![c] = "closed"]
    /\ LET r == OnDisconnect(c)
       IN Apply(r, "disconnect", c, myBoardId[c], [lastUsersUpdate EXCEPT ![c] = <<>>], 0, 0)
          /\ synced' = SyncedAfter(r.rooms)
    /\ vacated' = [b \in RoomKeys |-> vacated[b] \/ MapKeys(rooms[b].users) = {c}]
    /\ UNCHANGED tab
    /\ UNCHANGED <<canvasVars, clientVars, socketVars, sites, storeVars>>

Next ==
    \/ \E c \in Conns : Connection(c)
    \/ \E c \in Conns, b \in BoardIds : JoinRoom(c, b)
    \/ \E c \in Conns, b \in BoardIds, cj \in Snapshots : CanvasSync(c, b, cj)
    \/ \E c \in Conns, b \in BoardIds, p \in Coords : CursorMove(c, b, p[1], p[2])
    \/ \E c \in Conns : Disconnect(c)

Spec == Init /\ [][Next]_vars

\* --- a transport resume: handles 1 and 2 are two connections of one tab
\* (the client's socket reconnected under a new socket.id)
InitResume ==
    /\ tab = [c \in Conns |-> IF c <= 2 THEN 1 ELSE ((c - 2) % Len(UserIds)) + 1]
    /\ InitRelay
    /\ InitCanvas
    /\ InitPeers
    /\ InitStore
    /\ InitClient(DevEnv)

SpecResume == InitResume /\ [][Next]_vars

\* --- the serverless relay (api/socket): its join-room handler differs,
\* its other handlers are those of the standalone relay
ApiJoinRoom(c, b) ==
    /\ status[c] = "open"
    /\ LET r == ApiOnJoinRoom(c, b, MyUser(c))
       IN Apply(r, "join-room", c, b, lastUsersUpdate, 0, 0) /\ synced' = SyncedAfter(r.rooms)
    /\ vacated' = [vacated EXCEPT ![b] = FALSE]
    /\ UNCHANGED <<tab, status>>
    /\ UNCHANGED <<canvasVars, clientVars, socketVars, sites, storeVars>>

NextApi ==
    \/ \E c \in Conns : Connection(c)
    \/ \E c \in Conns, b \in BoardIds : ApiJoinRoom(c, b)
    \/ \E c \in Conns, b \in BoardIds, cj \in Snapshots : CanvasSync(c, b, cj)
    \/ \E c \in Conns, b \in BoardIds, p \in Coords : CursorMove(c, b, p[1], p[2])
    \/ \E c \in Conns : Disconnect(c)

SpecApi == Init /\ [][NextApi]_vars

\* --- the members of board "A" editing together.  Every connection has
\* joined "A", in the order of the handles, and no canvas-sync was sent yet.
SyncBoard == "A"

InitSync ==
    /\ tab = [c \in Conns |-> ((c - 1) % Len(UserIds)) + 1]
    /\ status = [c \in Conns |-> "open"]
    /\ rooms = [b \in RoomKeys |->
                  IF b = SyncBoard
                  THEN [exists |-> TRUE, canvasJSON |-> Null,
                        users |-> [c \in Conns |-> [sid |-> c, user |-> UserInfo(tab[c])]]]
                  ELSE NoRoom]
    /\ myBoardId = [c \in Conns |-> SyncBoard]
    /\ socketRooms = [c \in Conns |-> {SyncBoard}]
    /\ lastUsersUpdate = [c \in Conns |-> MapValues(rooms[SyncBoard].users)]
    /\ synced = [b \in RoomKeys |-> Null]
    /\ vacated = [b \in RoomKeys |-> FALSE]
    /\ last = [op |-> "join-room", conn |-> MaxConn, board |-> SyncBoard, prev |-> Null,
               hadRoom |-> TRUE, wasVacated |-> FALSE, x |-> 0, y |-> 0]
    /\ out = <<RoomStateEv(MaxConn, SyncBoard, Null,
                           otherUsers(rooms[SyncBoard].users, MaxConn))>>
             \o broadcastUsers(rooms, socketRooms, SyncBoard)
    /\ InitCanvas
    /\ InitPeers
    /\ InitStore
    /\ InitClient(DevEnv)

\* what a step of the members leaves alone
SiteStep == UNCHANGED <<canvasVars, clientVars, socketVars, storeVars>>

\* member c draws: saveAfterAction runs and emitCanvasSync sets the timeout
SiteEdit(c, v) ==
    /\ sites.edits[c] < MaxEdits
    /\ v # sites.canvas[c]
    /\ sites' = [sites EXCEPT !.canvas[c] = v, !.pending[c] = TRUE,
                              !.edits[c] = @ + 1, !.overlap = FALSE]
    /\ UNCHANGED relayVars
    /\ SiteStep

\* the timeout of member c expires: canvas-sync with its canvas as it is now
SiteEmit(c) ==
    /\ sites.pending[c]
    /\ sites' = [sites EXCEPT
                    !.pending[c] = FALSE,
                    !.outbox[c] = Append(@, sites.canvas[c]),
                    !.overlap = @ \/ sites.inbox[c] # <<>>
                                  \/ \E d \in Conns \ {c} : sites.outbox[d] # <<>>]
    /\ UNCHANGED relayVars
    /\ SiteStep

\* the payloads r.out forwards to connection d, in order
RECURSIVE Forwarded(_, _)
Forwarded(evs, d) ==
    IF evs = <<>> THEN <<>>
    ELSE (IF Head(evs).to = d /\ Head(evs).ev = "canvas-sync"
          THEN <<Head(evs).canvasJSON>> ELSE <<>>) \o Forwarded(Tail(evs), d)

\* the relay handles the oldest canvas-sync of member c
SiteRelay(c) ==
    /\ sites.outbox[c] # <<>>
    /\ LET cj == Head(sites.outbox[c])
           r == OnCanvasSync(c, SyncBoard, cj)
       IN /\ Apply(r, "canvas-sync", c, SyncBoard, lastUsersUpdate, 0, 0)
          /\ synced' = [synced EXCEPT ![SyncBoard] = cj]
          /\ sites' = [sites EXCEPT
                          !.outbox[c] = Tail(@),
                          !.inbox = [d \in Conns |-> sites.inbox[d] \o Forwarded(r.out, d)]]
    /\ UNCHANGED <<tab, status, vacated>>
    /\ SiteStep

\* member c handles the oldest canvas-sync forwarded to it: applyRemoteCanvas
\* replaces its canvas and, the flag being set, nothing is emitted
SiteApply(c) ==
    /\ sites.inbox[c] # <<>>
    /\ sites' = [sites EXCEPT
                    !.canvas[c] = loadFromJSON(NewCanvas, Head(sites.inbox[c])).objects,
                    !.inbox[c] = Tail(@)]
    /\ UNCHANGED relayVars
    /\ SiteStep

NextSync ==
    \/ \E c \in Conns, v \in LocalContents : SiteEdit(c, v)
    \/ \E c \in Conns : SiteEmit(c)
    \/ \E c \in Conns : SiteRelay(c)
    \/ \E c \in Conns : SiteApply(c)

SpecSync == InitSync /\ [][NextSync]_vars

\* --- the board store's history on its own: any caller, any order.  The
\* snapshots pushed are L1, any number of times, and L2, which the history
\* holds at most once, so that an entry can be told from its neighbours.
Rare == "L2"

StoreSet(op, arg, r, cur, idx) ==
    /\ history' = r.history
    /\ historyIndex' = r.historyIndex
    /\ lastStore' = [op |-> op, arg |-> arg, ret |-> r.ret, cur |-> cur, idx |-> idx,
                     dropped |-> op = "pushHistory" /\ historyIndex + 1 >= HistoryCap,
                     after |-> lastStore.op,
                     trimmed |-> \/ op = "pushHistory" /\ historyIndex + 1 < Len(history)
                                 \/ op = "redo" /\ lastStore.op = "pushHistory"
                                                /\ lastStore.trimmed]

StoreStep(op, arg, r, cur, idx) ==
    /\ StoreSet(op, arg, r, cur, idx)
    /\ UNCHANGED <<relayVars, canvasVars, clientVars, socketVars, sites, snapLoads>>

PushHistory(state) ==
    /\ state = Rare => \A k \in DOMAIN history : history[k] # Rare
    /\ StoreStep("pushHistory", state, pushHistory(history, historyIndex, state), Null, -1)

\* undo().  lastStore keeps the snapshot that was current and the index
\* before an undo (cur, idx), the operation before this one (after), whether
\* a push dropped the oldest entry (dropped) and whether it, or the push
\* right before a redo, discarded entries after the index (trimmed).
Undo ==
    StoreStep("undo", Null, undo(history, historyIndex),
              IF historyIndex >= 0 THEN history[historyIndex + 1] ELSE Null, historyIndex)

Redo == StoreStep("redo", Null, redo(history, historyIndex), Null, -1)

ClearBoard ==
    /\ history # <<>>
    /\ StoreStep("clearBoard", Null, clearBoard, Null, -1)

NextStore ==
    \/ \E state \in LocalContents : PushHistory(state)
    \/ Undo
    \/ Redo
    \/ ClearBoard

SpecStore == Init /\ [][NextStore]_vars

\* --- inbound payloads without a boardId field: the handlers destructure
\* the payload, so boardId reads as undefined
PayloadBoardIds == (BoardIds \ {""}) \cup {Undefined}

NextMalformed ==
    \/ \E c \in Conns : Connection(c)
    \/ \E c \in Conns, b \in PayloadBoardIds : JoinRoom(c, b)
    \/ \E c \in Conns, b \in PayloadBoardIds, cj \in Snapshots : CanvasSync(c, b, cj)
    \/ \E c \in Conns, b \in PayloadBoardIds, p \in Coords : CursorMove(c, b, p[1], p[2])
    \/ \E c \in Conns : Disconnect(c)

SpecMalformed == Init /\ [][NextMalformed]_vars

\* ----------------------------------------------- client canvas actions
MaxLoads == 2

\* what a client step records about itself
CanvasStep(op, r) ==
    /\ timers' = r.timers
    /\ syncTimerRef' = r.syncTimerRef
    /\ lastCanvas' = [op |-> op, pushed |-> r.pushed, scheduled |-> r.scheduled,
                      cleared |-> r.cleared, burst |-> burst, flag |-> isRemoteUpdateRef]

\* The local user adds, modifies or removes an object: Fabric fires
\* object:added / object:modified / object:removed and saveAfterAction runs.
ObjectEvent(v) ==
    /\ fabricRef.set
    /\ v # fabricRef.objects
    /\ fabricRef' = [fabricRef EXCEPT !.objects = v]
    /\ CanvasStep("mutation",
                  saveAfterAction(isRemoteUpdateRef, fabricRef', syncTimerRef, timers))
    /\ burst' = [n |-> IF burst.n = "none" THEN "one" ELSE "many", state |-> v]
    /\ emitted' = <<>>
    /\ UNCHANGED <<isRemoteUpdateRef, loads>>
    /\ UNCHANGED <<relayVars, clientVars, socketVars, sites, storeVars>>

\* the 120 ms timeout t set by emitCanvasSync expires and its callback runs
TimerExpires(t) ==
    /\ t \in timers
    /\ emitted' = <<CanvasSyncMsg(toJSON(fabricRef))>>
    /\ CanvasStep("timer", [timers |-> timers \ {t}, syncTimerRef |-> NoTimer,
                            scheduled |-> FALSE, cleared |-> FALSE, pushed |-> FALSE])
    /\ burst' = NoBurst
    /\ sendBuffer' = SocketEmit(manager, sendBuffer, "canvas-sync")
    /\ UNCHANGED <<fabricRef, isRemoteUpdateRef, loads>>
    /\ UNCHANGED <<relayVars, clientVars, wire, sites, storeVars>>

\* handleCanvasSync: the relay's canvas-sync arrives and applyRemoteCanvas
\* starts loading it
HandleCanvasSync(canvasJSON) ==
    /\ fabricRef.set
    /\ Len(loads) < MaxLoads
    /\ isRemoteUpdateRef' = TRUE
    /\ loads' = Append(loads, canvasJSON)
    /\ CanvasStep("canvas-sync", [timers |-> timers, syncTimerRef |-> syncTimerRef,
                                  scheduled |-> FALSE, cleared |-> FALSE, pushed |-> FALSE])
    /\ emitted' = <<>>
    /\ UNCHANGED <<fabricRef, burst>>
    /\ UNCHANGED <<relayVars, clientVars, socketVars, sites, storeVars>>

\* The i-th pending loadFromJSON resolves: the canvas holds the snapshot's
\* objects, for which Fabric fired object:added, and then the callback
\* given to then() resets the flag.
LoadResolves(i) ==
    /\ i \in DOMAIN loads
    /\ fabricRef' = IF fabricRef.set THEN loadFromJSON(fabricRef, loads[i]) ELSE fabricRef
    /\ CanvasStep("load",
                  saveAfterAction(isRemoteUpdateRef, fabricRef', syncTimerRef, timers))
    /\ isRemoteUpdateRef' = FALSE
    /\ loads' = SubSeq(loads, 1, i - 1) \o SubSeq(loads, i + 1, Len(loads))
    /\ emitted' = <<>>
    /\ UNCHANGED burst
    /\ UNCHANGED <<relayVars, clientVars, socketVars, sites, storeVars>>

\* the cleanup of the canvas effect (the component unmounts)
Cleanup ==
    /\ fabricRef.set
    /\ fabricRef' = NoCanvas
    /\ CanvasStep("unmount",
                  [timers |-> IF syncTimerRef # NoTimer THEN timers \ {syncTimerRef} ELSE timers,
                   syncTimerRef |-> syncTimerRef, scheduled |-> FALSE,
                   cleared |-> syncTimerRef \in timers, pushed |-> FALSE])
    /\ burst' = NoBurst
    /\ emitted' = <<>>
    /\ UNCHANGED <<isRemoteUpdateRef, loads>>
    /\ UNCHANGED <<relayVars, clientVars, socketVars, sites, storeVars>>

NextCanvas ==
    \/ \E v \in LocalContents : ObjectEvent(v)
    \/ \E t \in TimerIds : TimerExpires(t)
    \/ \E canvasJSON \in Snapshots : HandleCanvasSync(canvasJSON)
    \/ \E i \in 1..MaxLoads : LoadResolves(i)
    \/ Cleanup

SpecCanvas == Init /\ [][NextCanvas]_vars

\* The browser runs every timeout that was set and not cleared, and every
\* loadFromJSON promise settles.
FairCanvas ==
    /\ \A t \in TimerIds : WF_vars(TimerExpires(t))
    /\ \A i \in 1..MaxLoads : WF_vars(LoadResolves(i))

SpecCanvasLive == Init /\ [][NextCanvas]_vars /\ FairCanvas

\* --------------------------------------------- client connection actions
\* a lifecycle handler that touches neither the canvas nor the relay
ClientStep(op) ==
    /\ lastClient' = op
    /\ IF op = "connect"
       THEN /\ sendBuffer' = <<>>
            /\ \E first \in BOOLEAN : wire' = OnConnectWrites(sendBuffer, first)
       ELSE /\ wire' = <<>>
            /\ UNCHANGED sendBuffer
    /\ UNCHANGED <<env, relayVars, canvasVars, sites, storeVars>>

\* joinRoom that joins only on the first connect
joinRoom_OnlyFirst ==
    /\ manager \in {"opening", "handshake"}
    /\ manager' = "joining"
    /\ connectionStatus' = "connected"
    /\ joinSent' = IF connectionStatus = "connecting" THEN <<JoinRoomMsg>> ELSE <<>>
    /\ ClientStep("connect")
    /\ UNCHANGED <<attempts, boardReady, readyTimer, pendingCanvasJSON, appLoads>>

\* socket.on('connect', joinRoom): the handshake of the first connection or
\* of a resumed one completed
joinRoom ==
    /\ manager \in {"opening", "handshake"}
    /\ manager' = "joining"
    /\ connectionStatus' = "connected"
    /\ joinSent' = <<JoinRoomMsg>>
    /\ ClientStep("connect")
    /\ UNCHANGED <<attempts, boardReady, readyTimer, pendingCanvasJSON, appLoads>>

\* socket.on('room-state'): the relay's answer to join-room
onRoomState(canvasJSON) ==
    /\ manager = "joining"
    /\ Len(appLoads) < MaxLoads
    /\ manager' = "connected"
    /\ connectionStatus' = "connected"
    /\ IF Truthy(canvasJSON)
       THEN IF fabricRef.set
            THEN /\ appLoads' = Append(appLoads, canvasJSON)
                 /\ UNCHANGED <<pendingCanvasJSON, boardReady>>
            ELSE /\ pendingCanvasJSON' = canvasJSON
                 /\ UNCHANGED <<appLoads, boardReady>>
       ELSE /\ boardReady' = TRUE
            /\ UNCHANGED <<appLoads, pendingCanvasJSON>>
    /\ joinSent' = <<>>
    /\ ClientStep("room-state")
    /\ UNCHANGED <<attempts, readyTimer>>

\* The i-th loadFromJSON of the room-state handler resolves: the canvas
\* holds the snapshot's objects, for which Fabric fired object:added, and
\* the callback given to then() sets boardReady.
AppLoadResolves(i) ==
    /\ i \in DOMAIN appLoads
    /\ fabricRef' = IF fabricRef.set THEN loadFromJSON(fabricRef, appLoads[i]) ELSE fabricRef
    /\ CanvasStep("room-state-load",
                  saveAfterAction(isRemoteUpdateRef, fabricRef', syncTimerRef, timers))
    /\ boardReady' = (boardReady \/ manager # "closed")
    /\ appLoads' = SubSeq(appLoads, 1, i - 1) \o SubSeq(appLoads, i + 1, Len(appLoads))
    /\ emitted' = <<>>
    /\ joinSent' = <<>>
    /\ lastClient' = "room-state-load"
    /\ wire' = <<>>
    /\ UNCHANGED <<isRemoteUpdateRef, loads, burst, relayVars, sendBuffer, sites, storeVars>>
    /\ UNCHANGED <<env, manager, attempts, connectionStatus, readyTimer, pendingCanvasJSON>>

\* socket.on('disconnect'): the transport dropped; the manager starts to
\* reconnect
onDisconnect ==
    /\ manager \in {"joining", "connected"}
    /\ manager' = "waiting"
    /\ connectionStatus' = "disconnected"
    /\ joinSent' = <<>>
    /\ ClientStep("disconnect")
    /\ UNCHANGED <<attempts, boardReady, readyTimer, pendingCanvasJSON, appLoads>>

\* socket.io.on('reconnect_attempt'): the reconnection delay elapsed
onReconnectAttempt ==
    /\ manager = "waiting"
    /\ manager' = "attempting"
    /\ attempts' = IF reconnectionAttempts(env).finite THEN attempts + 1 ELSE attempts
    /\ connectionStatus' = "reconnecting"
    /\ joinSent' = <<>>
    /\ ClientStep("reconnect_attempt")
    /\ UNCHANGED <<boardReady, readyTimer, pendingCanvasJSON, appLoads>>

\* socket.io.on('reconnect'): an attempt opened the transport
onReconnect ==
    /\ manager = "attempting"
    /\ manager' = "handshake"
    /\ attempts' = 0
    /\ connectionStatus' = "connected"
    /\ joinSent' = <<>>
    /\ ClientStep("reconnect")
    /\ UNCHANGED <<boardReady, readyTimer, pendingCanvasJSON, appLoads>>

\* socket.on('connect_error'): the first open or an attempt failed; the
\* manager schedules the next attempt unless the budget is used up
onConnectError ==
    /\ manager \in {"opening", "attempting"}
    /\ manager' = IF Exhausted(env, attempts) THEN "exhausted" ELSE "waiting"
    /\ connectionStatus' = "disconnected"
    /\ joinSent' = <<>>
    /\ ClientStep("connect_error")
    /\ UNCHANGED <<attempts, boardReady, readyTimer, pendingCanvasJSON, appLoads>>

\* socket.io.on('reconnect_failed')
onReconnectFailed ==
    /\ manager = "exhausted"
    /\ manager' = "failed"
    /\ connectionStatus' = "unavailable"
    /\ boardReady' = TRUE
    /\ joinSent' = <<>>
    /\ ClientStep("reconnect_failed")
    /\ UNCHANGED <<attempts, readyTimer, pendingCanvasJSON, appLoads>>

\* the 6 s fallback timeout that never sets boardReady
readyTimerExpires_Off ==
    /\ readyTimer
    /\ readyTimer' = FALSE
    /\ joinSent' = <<>>
    /\ ClientStep("readyTimer")
    /\ UNCHANGED <<manager, attempts, connectionStatus, boardReady, pendingCanvasJSON,
                   appLoads>>

\* setTimeout(() => setBoardReady(true), 6000) expires
readyTimerExpires ==
    /\ readyTimer
    /\ readyTimer' = FALSE
    /\ boardReady' = TRUE
    /\ joinSent' = <<>>
    /\ ClientStep("readyTimer")
    /\ UNCHANGED <<manager, attempts, connectionStatus, pendingCanvasJSON, appLoads>>

\* the cleanup of App's effect: clearTimeout(readyTimer), the handlers
\* are taken off, socket.disconnect()
AppCleanup ==
    /\ manager # "closed"
    /\ manager' = "closed"
    /\ readyTimer' = FALSE
    /\ joinSent' = <<>>
    /\ ClientStep("unmount")
    /\ UNCHANGED <<attempts, connectionStatus, boardReady, pendingCanvasJSON, appLoads>>

NextConn ==
    \/ joinRoom
    \/ \E canvasJSON \in Snapshots \cup {Null} : onRoomState(canvasJSON)
    \/ \E i \in 1..MaxLoads : AppLoadResolves(i)
    \/ onDisconnect
    \/ onReconnectAttempt
    \/ onReconnect
    \/ onConnectError
    \/ onReconnectFailed
    \/ readyTimerExpires
    \/ Cleanup
    \/ AppCleanup

\* a client of any build
InitConn ==
    /\ tab = [c \in Conns |-> ((c - 1) % Len(UserIds)) + 1]
    /\ InitRelay
    /\ InitCanvas
    /\ InitPeers
    /\ InitStore
    /\ \E e \in Envs : InitClient(e)

SpecConn == InitConn /\ [][NextConn]_vars

\* The browser runs the timeouts that are pending (the reconnection delay,
\* the 6 s fallback), every open attempt ends in connect or, at the latest
\* after the 20 s timeout, connect_error, an event that was raised reaches
\* its handler, and every loadFromJSON promise settles.
FairConn ==
    /\ WF_vars(onReconnectAttempt)
    /\ WF_vars(joinRoom \/ onReconnect \/ onConnectError)
    /\ WF_vars(onReconnectFailed)
    /\ WF_vars(readyTimerExpires)
    /\ \A i \in 1..MaxLoads : WF_vars(AppLoadResolves(i))

SpecConnLive == InitConn /\ [][NextConn]_vars /\ FairConn

\* --- the whole client: the connection lifecycle and the canvas
NextClient ==
    \/ NextConn
    \/ \E v \in LocalContents : ObjectEvent(v)
    \/ \E t \in TimerIds : TimerExpires(t)
    \/ \E canvasJSON \in Snapshots : HandleCanvasSync(canvasJSON)
    \/ \E i \in 1..MaxLoads : LoadResolves(i)

\* --- undo and redo from the UI: the store together with the canvas
MaxHist == 4

\* the user acts while the history, with a push for every load that has
\* not resolved, stays below MaxHist entries
Room == Len(history) + Len(snapLoads) < MaxHist

UiStep == UNCHANGED <<relayVars, clientVars, socketVars, sites>>

\* The user draws: Fabric fires object:added / modified / removed and
\* saveAfterAction pushes the canvas to the history and schedules a sync.
Draw(v) ==
    /\ fabricRef.set
    /\ Room
    /\ v # fabricRef.objects
    /\ fabricRef' = [fabricRef EXCEPT !.objects = v]
    /\ LET r == saveAfterAction(isRemoteUpdateRef, fabricRef', syncTimerRef, timers)
       IN /\ CanvasStep("mutation", r)
          /\ IF r.pushed
             THEN StoreSet("pushHistory", toJSON(fabricRef'),
                           pushHistory(history, historyIndex, toJSON(fabricRef')), Null, -1)
             ELSE UNCHANGED <<history, historyIndex, lastStore>>
    /\ burst' = [n |-> IF burst.n = "none" THEN "one" ELSE "many", state |-> v]
    /\ emitted' = <<>>
    /\ UNCHANGED <<isRemoteUpdateRef, loads, snapLoads>>
    /\ UiStep

\* canvasUndo / canvasRedo: load the snapshot the store returned, if any
canvasUndo(fc, snapshot, pending) ==
    IF ~fc.set \/ ~Truthy(snapshot) THEN pending ELSE Append(pending, snapshot)

\* handleUndo: undo() and canvasUndo(fabricRef, snapshot)
HandleUndo ==
    /\ Room
    /\ Len(snapLoads) < MaxLoads
    /\ LET r == undo(history, historyIndex)
       IN /\ StoreSet("undo", Null, r,
                      IF historyIndex >= 0 THEN history[historyIndex + 1] ELSE Null,
                      historyIndex)
          /\ snapLoads' = canvasUndo(fabricRef, r.ret, snapLoads)
    /\ UNCHANGED canvasVars
    /\ UiStep

\* handleRedo: redo() and canvasRedo(fabricRef, snapshot)
HandleRedo ==
    /\ Room
    /\ Len(snapLoads) < MaxLoads
    /\ LET r == redo(history, historyIndex)
       IN /\ StoreSet("redo", Null, r, Null, -1)
          /\ snapLoads' = canvasUndo(fabricRef, r.ret, snapLoads)
    /\ UNCHANGED canvasVars
    /\ UiStep

\* The i-th loadFromJSON of canvasUndo resolves: the canvas holds the
\* snapshot's objects, for which Fabric fired object:added with
\* isRemoteUpdateRef as it was.
SnapLoadResolves(i) ==
    /\ i \in DOMAIN snapLoads
    /\ fabricRef' = IF fabricRef.set THEN loadFromJSON(fabricRef, snapLoads[i]) ELSE fabricRef
    /\ LET r == saveAfterAction(isRemoteUpdateRef, fabricRef', syncTimerRef, timers)
       IN /\ CanvasStep("snapshot-load", r)
          /\ IF r.pushed
             THEN StoreSet("pushHistory", toJSON(fabricRef'),
                           pushHistory(history, historyIndex, toJSON(fabricRef')), Null, -1)
             ELSE UNCHANGED <<history, historyIndex, lastStore>>
    /\ snapLoads' = SubSeq(snapLoads, 1, i - 1) \o SubSeq(snapLoads, i + 1, Len(snapLoads))
    /\ emitted' = <<>>
    /\ UNCHANGED <<isRemoteUpdateRef, loads, burst>>
    /\ UiStep

NextUi ==
    \/ \E v \in LocalContents : Draw(v)
    \/ HandleUndo
    \/ HandleRedo
    \/ \E i \in 1..MaxLoads : SnapLoadResolves(i)

SpecUi == Init /\ [][NextUi]_vars

\* a client of the production build without VITE_SOCKET_URL
InitProd ==
    /\ tab = [c \in Conns |-> ((c - 1) % Len(UserIds)) + 1]
    /\ InitRelay
    /\ InitCanvas
    /\ InitPeers
    /\ InitStore
    /\ InitClient(ProdEnv)

SpecClient == InitProd /\ [][NextClient]_vars

\* fc.on('mouse:move'): the pointer moved over the canvas and the handler
\* emits cursor-move
MouseMove ==
    /\ fabricRef.set
    /\ emitted' = <<[ev |-> "cursor-move"]>>
    /\ sendBuffer' = SocketEmit(manager, sendBuffer, "cursor-move")
    /\ CanvasStep("mouse-move", [timers |-> timers, syncTimerRef |-> syncTimerRef,
                                 scheduled |-> FALSE, cleared |-> FALSE, pushed |-> FALSE])
    /\ UNCHANGED <<fabricRef, isRemoteUpdateRef, loads, burst>>
    /\ UNCHANGED <<relayVars, clientVars, wire, sites, storeVars>>

\* --- what the client sends: the lifecycle, pointer moves and local edits
NextSend ==
    \/ NextConn
    \/ MouseMove
    \/ \E v \in LocalContents : ObjectEvent(v)
    \/ \E t \in TimerIds : TimerExpires(t)

SpecSend == InitProd /\ [][NextSend]_vars

TypeOK ==
    /\ status \in [Conns -> {"new", "open", "closed"}]
    /\ \A b \in BoardIds : rooms[b].exists \in BOOLEAN
    /\ \A c \in Conns : socketRooms[c] \subseteq RoomKeys

\* ---------------------------------------------------------------- claims
\* the connection handles that are keys of board b's members map
Members(b) == MapKeys(rooms[b].users)

\* the members of b whose connection is still open
OpenMembers(b) == {c \in Members(b) : status[c] = "open"}

\* positions of the events of kind ev in out
Positions(ev) == {i \in DOMAIN out : out[i].ev = ev}

\* C1: the canvasJSON of the room-state a joiner receives is the payload of
\* the most recent canvas-sync processed on the room it joins, or null when
\* none was processed on that room.
C1_SnapshotCorrectness ==
    last.op = "join-room" =>
        /\ \E i \in DOMAIN out : out[i].ev = "room-state" /\ out[i].to = last.conn
        /\ \A i \in Positions("room-state") : out[i].canvasJSON = synced[last.board]

\* a joiner received a snapshot that replaced an earlier one of the same room
C1_Witness ==
    /\ last.op = "join-room"
    /\ last.hadRoom
    /\ \E i \in Positions("room-state") :
          out[i].canvasJSON = "s2" /\ out[i].users # <<>>

\* C2: a canvas-sync or cursor-move is never forwarded to the connection that
\* sent it, whichever board it names and whether or not the sender joined.
C2_NoSelfEcho ==
    last.op \in {"canvas-sync", "cursor-move"} =>
        \A i \in DOMAIN out : out[i].to # last.conn

\* a member of a board sent a canvas-sync for it and a peer received it
C2_Witness ==
    /\ last.op = "canvas-sync"
    /\ last.board \in socketRooms[last.conn]
    /\ last.conn \in Members(last.board)
    /\ out # <<>>

\* C3: every event is delivered only to connections whose current board is
\* the board the event was emitted for.
C3_JoinIsolation ==
    \A i \in DOMAIN out : myBoardId[out[i].to] = out[i].room

\* C4: each open member of a board holds, as its last users-update, exactly
\* the identities of the board's members map, which has no entry for a
\* departed connection; the peer list derived from it leaves out its own userId.
C4_PresenceConvergence ==
    \A b \in BoardIds : \A c \in OpenMembers(b) :
        /\ lastUsersUpdate[c] = MapValues(rooms[b].users)
        /\ \A k \in Members(b) : status[k] = "open"
        /\ \A i \in DOMAIN usersUpdatePeers(lastUsersUpdate[c], c) :
              usersUpdatePeers(lastUsersUpdate[c], c)[i].id # MyUser(c).userId

\* C5: a board has a room in the registry iff its members map is non-empty.
C5_RoomIffMembers ==
    \A b \in BoardIds : Has(rooms, b) <=> rooms[b].users # <<>>

\* C6: once the last member of a board has disconnected the registry holds
\* no room for the board, and the next join-room for it receives canvasJSON
\* null, whatever the relay processed in between.
C6_EmptyRoomCleanup ==
    /\ \A b \in BoardIds : vacated[b] => ~Has(rooms, b)
    /\ (last.op = "join-room" /\ last.wasVacated) =>
          \A i \in Positions("room-state") : out[i].canvasJSON = Null

\* C7: a canvas-sync or cursor-move naming a board without a room creates no
\* room, stores nothing and forwards nothing.
C7_UnknownBoardNoOp ==
    (last.op \in {"canvas-sync", "cursor-move"} /\ ~last.hadRoom) =>
        /\ ~Has(rooms, last.board)
        /\ out = <<>>

\* C8: join-room sends one room-state, to the joiner only, with the board's
\* snapshot and the identities of the other members; only after it, one
\* users-update with the full member list to every connected member, the
\* joiner included; the first joiner of an unknown board gets null and no users.
C8_JoinAnnouncement ==
    last.op = "join-room" =>
        LET b == last.board
            c == last.conn
        IN /\ Cardinality(Positions("room-state")) = 1
           /\ \A i \in Positions("room-state") :
                /\ out[i].to = c
                /\ out[i].canvasJSON = rooms[b].canvasJSON
                /\ out[i].users = MapValues(SelectSeq(rooms[b].users, LAMBDA e : e.sid # c))
                /\ ~last.hadRoom => out[i].canvasJSON = Null /\ out[i].users = <<>>
                /\ \A j \in DOMAIN out : j < i => out[j].room # b
                /\ \A j \in DOMAIN out : j > i =>
                      /\ out[j].ev = "users-update"
                      /\ out[j].room = b
                      /\ out[j].users = MapValues(rooms[b].users)
                /\ {out[j].to : j \in {k \in DOMAIN out : k > i}} = OpenMembers(b)
                /\ Len(out) - i = Cardinality(OpenMembers(b))
           /\ c \in OpenMembers(b)
           /\ \E k \in DOMAIN rooms[b].users :
                 rooms[b].users[k].sid = c /\ MapValues(rooms[b].users)[k] = MyUser(c)

\* a second member joined a board that holds a snapshot
C8_Witness ==
    /\ last.op = "join-room"
    /\ Cardinality(OpenMembers(last.board)) = 2
    /\ \E i \in Positions("room-state") :
          out[i].canvasJSON # Null /\ Len(out[i].users) = 1 /\ Len(out) = i + 2

\* C9: a connection handle is a key of the members map of at most one room.
C9_SingleMembership ==
    \A c \in Conns : Cardinality({b \in BoardIds : c \in Members(b)}) <= 1

\* C10: a join-room for a board other than the connection's current one
\* takes the connection out of the old board's members, sends the old
\* board's recomputed list to its remaining members and not to the switching
\* connection, and deletes the old room when it is left empty.
C10_RoomSwitch ==
    (last.op = "join-room" /\ last.prev # Null /\ last.prev # last.board) =>
        LET a == last.prev
            c == last.conn
        IN /\ c \notin Members(a)
           /\ Has(rooms, a) => rooms[a].users # <<>>
           /\ \A m \in OpenMembers(a) :
                 \E i \in DOMAIN out : out[i] = UsersUpdateEv(m, a, MapValues(rooms[a].users))
           /\ \A i \in DOMAIN out : out[i].room = a => out[i].to # c

\* the positions of the entries of the user list us that carry userId uid
WithUserId(us, uid) == {j \in DOMAIN us : us[j].userId = uid}

\* C11: after a join-room the board's members map, and every users-update
\* the join broadcasts, hold exactly one entry with the joiner's userId, the
\* joiner's own handle, also when an earlier handle of the same client has
\* not been disconnected yet.
C11_ResumeNoDuplicate ==
    last.op = "join-room" =>
        LET b == last.board
            c == last.conn
            uid == MyUser(c).userId
        IN /\ {rooms[b].users[j].sid : j \in WithUserId(MapValues(rooms[b].users), uid)} = {c}
           /\ Cardinality(WithUserId(MapValues(rooms[b].users), uid)) = 1
           /\ \A i \in Positions("users-update") :
                 out[i].room = b => Cardinality(WithUserId(out[i].users, uid)) = 1

\* C12: an inbound event whose payload has no boardId is dropped: it creates
\* no room, joins nothing and emits nothing.
C12_MalformedDropped ==
    /\ ~Has(rooms, Undefined)
    /\ \A c \in Conns : myBoardId[c] # Undefined /\ Undefined \notin socketRooms[c]
    /\ (last.board = Undefined /\ last.op # "disconnect") => out = <<>>

\* C13: a join-room from a connection whose current board is already the
\* named one changes neither the registry nor that room's members, their
\* order or its snapshot; it only sends room-state to that connection and
\* then users-update to the room's members.
C13_DuplicateJoin ==
    [][(last'.op = "join-room" /\ last'.prev = last'.board) =>
          LET b == last'.board
              c == last'.conn
              aud == SetToSeq(OpenMembers(b))
          IN /\ c \in Members(b)
             /\ rooms' = rooms
             /\ myBoardId' = myBoardId
             /\ socketRooms' = socketRooms
             /\ out' = <<RoomStateEv(c, b, rooms[b].canvasJSON,
                             MapValues(SelectSeq(rooms[b].users, LAMBDA e : e.sid # c)))>>
                       \o [i \in DOMAIN aud |->
                              UsersUpdateEv(aud[i], b, MapValues(rooms[b].users))]]_vars

\* the first of two members of a board sent join-room for it again
C13_Witness ==
    /\ last.op = "join-room"
    /\ last.prev = last.board
    /\ Len(rooms[last.board].users) = 2
    /\ rooms[last.board].users[1].sid = last.conn
    /\ rooms[last.board].canvasJSON # Null

\* C14: the disconnect of a joined connection takes it out of its board's
\* members, sends the remaining members user-left with its userId and then
\* users-update with the recomputed list, and deletes the room when empty.
C14_DisconnectLeaves ==
    (last.op = "disconnect" /\ last.board # Null) =>
        LET b == last.board
            c == last.conn
            aud == SetToSeq(OpenMembers(b))
        IN /\ c \notin Members(b)
           /\ Has(rooms, b) => rooms[b].users # <<>>
           /\ out = [i \in DOMAIN aud |-> UserLeftEv(aud[i], b, MyUser(c).userId)]
                    \o [i \in DOMAIN aud |->
                           UsersUpdateEv(aud[i], b, MapValues(rooms[b].users))]

\* C15: a connection whose disconnect was processed is a key of no room's
\* members map and is sent nothing.
C15_DisconnectedIsGone ==
    \A c \in Conns : status[c] = "closed" =>
        /\ \A b \in RoomKeys : c \notin Members(b)
        /\ \A i \in DOMAIN out : out[i].to # c

\* C16: cursor-move changes no relay state and forwards {userId, x, y} once
\* to every member of the named board but the sender; a join-room delivers
\* no cursor position.
C16_CursorStateless ==
    [][/\ last'.op = "cursor-move" =>
             LET to == SetToSeq(OpenMembers(last'.board) \ {last'.conn})
             IN /\ rooms' = rooms
                /\ myBoardId' = myBoardId
                /\ socketRooms' = socketRooms
                /\ Len(out') = Len(to)
                /\ \A i \in DOMAIN to :
                      /\ out'[i].to = to[i]
                      /\ out'[i].ev = "cursor-move"
                      /\ out'[i].userId = MyUser(last'.conn).userId
                      /\ out'[i].room = last'.board
                      /\ out'[i].x = last'.x /\ out'[i].y = last'.y
       /\ last'.op = "join-room" =>
             \A i \in DOMAIN out' : out'[i].ev \in {"room-state", "users-update"}]_vars

\* a member moved its pointer and a peer was told
C16_Witness ==
    /\ last.op = "cursor-move"
    /\ last.x # last.y
    /\ last.conn \in Members(last.board)
    /\ Len(out) = 1
    /\ rooms[last.board].canvasJSON # Null

C18_DebouncedBurst ==
    /\ (fabricRef.set /\ burst.n # "none") => Cardinality(timers) = 1
    /\ lastCanvas.op = "timer" =>
          /\ lastCanvas.burst.n # "none"
          /\ emitted = <<CanvasSyncMsg(lastCanvas.burst.state)>>

\* C19: at most one debounced emission is pending, the one syncTimerRef
\* names; scheduling a new one cancels the prior one, and after the canvas
\* unmounted none is pending and nothing is emitted.
C19_OnePendingEmit ==
    /\ Cardinality(timers) <= 1
    /\ timers # {} => timers = {syncTimerRef}
    /\ ~fabricRef.set => timers = {} /\ emitted = <<>>

\* the canvas unmounted while the emission of a burst of several
\* mutations was pending, and the cleanup cancelled it
C19_Witness ==
    /\ lastCanvas.op = "unmount"
    /\ lastCanvas.cleared
    /\ lastCanvas.burst.n = "many"

\* C20: neither receiving a remote snapshot nor the completion of its load
\* pushes a history entry, schedules a canvas-sync or emits one, also when
\* another remote snapshot arrived while the first was loading.
C20_RemoteApplySilent ==
    lastCanvas.op \in {"canvas-sync", "load"} =>
        /\ ~lastCanvas.pushed
        /\ ~lastCanvas.scheduled
        /\ emitted = <<>>

\* C21: a local mutation on a mounted canvas is eventually followed by a
\* canvas-sync emission (or the canvas unmounts), also when the mutation
\* was made while a remote snapshot was being applied.
C21_MutationEventuallySynced ==
    (fabricRef.set /\ burst.n # "none") ~> (burst.n = "none")

\* the status transitions the connection lifecycle is said to make
StatusTransitions ==
    {<<"connecting", "connected">>, <<"connected", "reconnecting">>,
     <<"reconnecting", "connected">>, <<"reconnecting", "unavailable">>}

\* C22: connectionStatus takes only the values connecting, connected,
\* reconnecting and unavailable, and changes only from connecting to
\* connected, connected to reconnecting, reconnecting to connected and
\* reconnecting to unavailable.
C22_StatusTransitions ==
    [][/\ connectionStatus' \in {"connecting", "connected", "reconnecting", "unavailable"}
       /\ connectionStatus' # connectionStatus =>
             <<connectionStatus, connectionStatus'>> \in StatusTransitions]_vars

\* C23: every completed handshake, the first one and every resume, makes
\* the client emit exactly one join-room, with the boardId and identity of
\* its first join; no other lifecycle step emits one (a step of the canvas
\* leaves the client's connection state as it is).
C23_JoinOnEveryConnect ==
    [][/\ (manager \in {"opening", "handshake"} /\ manager' = "joining") =>
             joinSent' = <<JoinRoomMsg>>
       /\ ~(manager \in {"opening", "handshake"} /\ manager' = "joining") =>
             (joinSent' = <<>> \/ UNCHANGED clientVars)]_vars

\* the client joined again after a drop and a successful reconnection,
\* while the snapshot of its earlier join was still loading
C23_Witness ==
    /\ lastClient = "connect"
    /\ manager = "joining"
    /\ joinSent = <<JoinRoomMsg>>
    /\ appLoads # <<>>

\* C24: a build with the finite retry budget that waits to reconnect
\* reaches status unavailable unless an attempt succeeds (or the app
\* unmounts); once unavailable its status never changes and it makes no
\* further attempt.
C24_RetryBudget ==
    /\ (~collabAvailable(env) /\ manager = "waiting") ~>
          (connectionStatus = "unavailable" \/ manager \in {"handshake", "closed"})
    /\ [][connectionStatus = "unavailable" =>
             /\ connectionStatus' = "unavailable"
             /\ manager' \in {"failed", "closed"}
             /\ attempts' = attempts]_vars

\* the fifth attempt failed and the client gave up
C24_Witness ==
    /\ connectionStatus = "unavailable"
    /\ lastClient = "reconnect_failed"
    /\ attempts = 5

C26_BoardReady ==
    /\ <>(boardReady \/ manager = "closed")
    /\ [][boardReady => boardReady']_vars

\* the fallback timeout made the board ready while the snapshot of
\* room-state was waiting for a canvas
C26_Witness ==
    /\ boardReady
    /\ lastClient = "readyTimer"
    /\ pendingCanvasJSON # Null
    /\ connectionStatus = "connected"

\* C27: the reconnection attempt limit is unlimited exactly when
\* VITE_SOCKET_URL is configured or the build is a development build;
\* otherwise it is 5, the path is /api/socket and polling is the only
\* transport, and the client makes no more than 5 attempts in a row.
C27_RetryLimit ==
    LET configured == env.url \notin {Undefined, ""}
        limit == reconnectionAttempts(env)
    IN /\ ~limit.finite <=> (configured \/ env.dev)
       /\ limit.finite =>
             /\ limit.n = 5
             /\ socketPath(env) = "/api/socket"
             /\ transports(env) = <<"polling">>
             /\ attempts <= 5
       /\ ~limit.finite => manager \notin {"exhausted", "failed"}

\* a production build whose VITE_SOCKET_URL is the empty string used up
\* its five attempts
C27_Witness ==
    /\ env = [url |-> "", dev |-> FALSE]
    /\ manager = "exhausted"
    /\ attempts = 5

\* the keys of a members map, in its order
Sids(m) == [i \in DOMAIN m |-> m[i].sid]

\* C28: a room's members map keeps insertion order: a join-room appends a
\* new member at the end and leaves a current member where it is, a
\* departure only takes the departing member out; every users-update list
\* is the members in that order and every room-state list is the members
\* but the joiner in that order.
C28_InsertionOrder ==
    [][LET c == last'.conn
       IN /\ \A b \in BoardIds :
                LET old == Sids(rooms[b].users)
                    new == Sids(rooms'[b].users)
                IN /\ \/ new = old
                      \/ new = SelectSeq(old, LAMBDA k : k # c)
                      \/ c \notin Members(b) /\ new = Append(old, c)
                   /\ (last'.op = "join-room" /\ last'.board = b) =>
                         new = IF c \in Members(b) THEN old ELSE Append(old, c)
          /\ \A i \in DOMAIN out' :
                /\ out'[i].ev = "users-update" =>
                      out'[i].users = MapValues(rooms'[out'[i].room].users)
                /\ out'[i].ev = "room-state" =>
                      out'[i].users =
                         MapValues(SelectSeq(rooms'[out'[i].room].users,
                                             LAMBDA e : e.sid # out'[i].to))]_vars

\* a second member joined a board and the presence list names it last
C28_Witness ==
    /\ last.op = "join-room"
    /\ last.prev # last.board
    /\ Sids(rooms[last.board].users) = <<3 - last.conn, last.conn>>
    /\ \E i \in DOMAIN out :
          /\ out[i].ev = "users-update"
          /\ out[i].users = <<MyUser(3 - last.conn), MyUser(last.conn)>>

\* C29: no list a client stores as activeUsers has an entry with its own
\* userId, also when the relay still holds the client's earlier connection
\* as a member of the board.  The store's list is replaced by the room-state
\* and users-update handlers only; the other handlers remove or keep entries.
C29_NoSelfInActiveUsers ==
    \A i \in DOMAIN out :
        LET e == out[i]
            peers == IF e.ev = "room-state" THEN roomStatePeers(e.users)
                     ELSE IF e.ev = "users-update" THEN usersUpdatePeers(e.users, e.to)
                     ELSE <<>>
        IN \A k \in DOMAIN peers : peers[k].id # MyUser(e.to).userId

\* C30: when the snapshot of a room-state has been loaded into the joining
\* client's canvas, the load has pushed no history entry and has scheduled
\* no canvas-sync.
C30_RoomStateLoadIsSilent ==
    lastCanvas.op = "room-state-load" =>
        /\ ~lastCanvas.pushed
        /\ ~lastCanvas.scheduled

\* C31: when a handshake completed, join-room is the first message the
\* socket writes on the connection: no canvas-sync or cursor-move, emitted
\* while the socket was not connected or after, goes out before it.
C31_JoinRoomFirst ==
    lastClient = "connect" => wire # <<>> /\ wire[1] = "join-room"

\* C32: in the serverless relay, when a connection that is the only member
\* of a board sends join-room for a different board, the registry holds no
\* room for the board it left.
C32_ApiLeaveCleansRoom ==
    [][\A c \in Conns : \A a \in BoardIds :
          (/\ last'.op = "join-room"
           /\ last'.conn = c
           /\ myBoardId[c] = a
           /\ last'.board # a
           /\ Members(a) = {c}) => ~Has(rooms', a)]_vars

\* no timeout is pending and no canvas-sync is in flight
Quiescent ==
    \A c \in Conns :
        ~sites.pending[c] /\ sites.outbox[c] = <<>> /\ sites.inbox[c] = <<>>

C34_OnlyMembersAct ==
    [][\A b \in BoardIds :
          (\/ rooms'[b].canvasJSON # rooms[b].canvasJSON
           \/ \E i \in DOMAIN out' :
                 out'[i].room = b /\ out'[i].ev \in {"canvas-sync", "cursor-move"})
          => last'.conn \in Members(b)]_vars

\* C35: between handlers, the connections a board's broadcasts are
\* delivered to (the transport room of the board) are the keys of the
\* board's members map.
C35_AudienceIsMembers ==
    \A b \in BoardIds : Audience(socketRooms, b) = Members(b)

\* C36: the history has at most 50 entries, historyIndex lies between -1
\* and the last position and is -1 exactly when the history is empty; after
\* a pushHistory, also one that dropped the oldest entry, historyIndex is
\* the position of the entry just pushed.
C36_HistoryBounds ==
    /\ Len(history) <= 50
    /\ historyIndex \in -1 .. Len(history) - 1
    /\ historyIndex = -1 <=> history = <<>>
    /\ lastStore.op = "pushHistory" =>
          /\ historyIndex = Len(history) - 1
          /\ history[historyIndex + 1] = lastStore.arg

\* a push onto a full history dropped the oldest entry and the rare
\* snapshot it pushed is the last and current entry
C36_Witness ==
    /\ lastStore.op = "pushHistory"
    /\ lastStore.dropped
    /\ lastStore.arg = Rare
    /\ Len(history) = 50
    /\ historyIndex = 49
    /\ history[50] = Rare

\* C37: undo leaves the history list as it is, and when undo returned a
\* snapshot, a redo that follows it at once returns the snapshot that was
\* current before the undo, puts historyIndex back to what it was then and
\* leaves the history list as it is.
C37_UndoRedo ==
    [][/\ lastStore'.op = "undo" => history' = history
       /\ (lastStore.op = "undo" /\ lastStore.ret # Null /\ lastStore'.op = "redo") =>
             /\ lastStore'.ret = lastStore.cur
             /\ historyIndex' = lastStore.idx
             /\ history' = history]_vars

\* a redo right after an undo returned the rare snapshot, which lies
\* between other entries
C37_Witness ==
    /\ lastStore.op = "redo"
    /\ lastStore.after = "undo"
    /\ lastStore.ret = Rare
    /\ historyIndex \in 1 .. Len(history) - 2
    /\ history[historyIndex + 1] = Rare

\* C38: pushHistory keeps the entries up to the current index, discards
\* those after it and appends the pushed state as the last and current
\* entry; a redo that follows it at once returns null and changes neither
\* the history nor historyIndex.
C38_PushDiscardsRedo ==
    [][/\ lastStore'.op = "pushHistory" =>
             LET kept == SubSeq(history, 1, historyIndex + 1)
             IN /\ history' = (IF Len(kept) < 50 THEN kept ELSE Tail(kept))
                                 \o <<lastStore'.arg>>
                /\ historyIndex' = Len(history') - 1
       /\ (lastStore.op = "pushHistory" /\ lastStore'.op = "redo") =>
             /\ lastStore'.ret = Null
             /\ history' = history
             /\ historyIndex' = historyIndex]_vars

\* a push after an undo discarded the entries after the index, and the redo
\* that followed returned null with the pushed snapshot still last and current
C38_Witness ==
    /\ lastStore.op = "redo"
    /\ lastStore.after = "pushHistory"
    /\ lastStore.trimmed
    /\ lastStore.ret = Null
    /\ Len(history) >= 2
    /\ history[Len(history)] = Rare
    /\ historyIndex = Len(history) - 1

\* C39: Undo from the UI changes the history only by lowering historyIndex
\* by one: undo() leaves the history list as it is, and loading the snapshot
\* it returned pushes no entry and moves no index.
C39_UiUndoOnlyMovesIndex ==
    [][/\ lastStore'.op = "undo" /\ lastStore # lastStore' =>
             /\ history' = history
             /\ historyIndex' \in {historyIndex, historyIndex - 1}
       /\ lastCanvas'.op = "snapshot-load" /\ lastCanvas # lastCanvas' =>
             /\ history' = history
             /\ historyIndex' = historyIndex]_vars

====
